---- MODULE Spec2Model ----
(***************************************************************************)
(* nesdoku: a 9x9 Sudoku solved by wave-function-collapse style branching. *)
(* The model follows src/src/sudoku.rs (the Sudoku board and its methods)  *)
(* and the event loop of src/src/main.rs (the frontier boards, the R and *)
(* Space key handlers and the assertion closing the Space handler).        *)
(*                                                                         *)
(* A board is a function board[y][x] over 0..8 x 0..8, as in the source.   *)
(* A coordinate is a pair <<x, y>>.  Vectors are sequences.                *)
(***************************************************************************)
EXTENDS Integers, Sequences, FiniteSets, TLC

VARIABLES
    file,     \* the text of the puzzle file: a sequence of lines of characters
    boards,   \* main.rs boards: the frontier, boards[1] is the source's boards[0]
    pc,       \* where the process is: "start", "running", "panicked", "exited"
    last      \* what the last handler or method call did (its arguments and result)

vars == <<file, boards, pc, last>>

-----------------------------------------------------------------------------
(* Program constants *)

BOARD_DIM == 9

QUADRANT_DIM == 3

\* usize::MAX, the initial less_entropy.  Candidate vectors hold at most 9
\* numbers, so the largest 32-bit signed integer stands for 2^64 - 1.
USIZE_MAX == 2147483647

Dim == 0 .. (BOARD_DIM - 1)

-----------------------------------------------------------------------------
(* CellValue and Cell *)

Certain(num) == [certain |-> TRUE, nums |-> <<num>>]

Uncertain(nums) == [certain |-> FALSE, nums |-> nums]

is_certain(value) == value.certain

as_vec(value) == value.nums

Cell(value, is_static) == [value |-> value, is_static |-> is_static]

-----------------------------------------------------------------------------
(* Sudoku::from_file *)

\* char.to_string().parse::<u32>(): Ok(num) for one ASCII digit, Err otherwise
\* (Err is -1 here).
parse_u32(char) ==
    CASE char = "0" -> 0
      [] char = "1" -> 1
      [] char = "2" -> 2
      [] char = "3" -> 3
      [] char = "4" -> 4
      [] char = "5" -> 5
      [] char = "6" -> 6
      [] char = "7" -> 7
      [] char = "8" -> 8
      [] char = "9" -> 9
      [] OTHER -> -1

\* board[y][x] is indexed only in the Ok arm: a digit at a line index or a
\* character index of 9 or more indexes the 9x9 vectors out of bounds.
from_file_panics(board_text) ==
    \E l \in 1 .. Len(board_text) : \E c \in 1 .. Len(board_text[l]) :
        /\ parse_u32(board_text[l][c]) >= 0
        /\ (l - 1 >= BOARD_DIM \/ c - 1 >= BOARD_DIM)

\* Every position is written at most once, so the loops amount to this map.
from_file(board_text) ==
    [y \in Dim |-> [x \in Dim |->
        IF /\ y + 1 <= Len(board_text)
           /\ x + 1 <= Len(board_text[y + 1])
           /\ parse_u32(board_text[y + 1][x + 1]) >= 0
        THEN Cell(Certain(parse_u32(board_text[y + 1][x + 1])), TRUE)
        ELSE Cell(Uncertain(<<>>), FALSE)]]

-----------------------------------------------------------------------------
(* Coordinates of the three constraint groups *)

quadrant_coords(quadrant_x, quadrant_y) ==
    [i \in 1 .. (QUADRANT_DIM * QUADRANT_DIM) |->
        << quadrant_x * QUADRANT_DIM + ((i - 1) % QUADRANT_DIM),
           quadrant_y * QUADRANT_DIM + ((i - 1) \div QUADRANT_DIM) >>]

\* row_coords pairing the index with the other component.
row_coords_swapped(row_index) == [i \in 1 .. BOARD_DIM |-> <<i - 1, row_index>>]

row_coords(row_index) == [i \in 1 .. BOARD_DIM |-> <<row_index, i - 1>>]

column_coords(column_index) == [i \in 1 .. BOARD_DIM |-> <<i - 1, column_index>>]

-----------------------------------------------------------------------------
(* Sudoku::update_possible_cell_values / update_possible_values *)

\* The loop over quadrant.chain(row).chain(column) removes from
\* possible_values, which starts as 1..9 without repetition, the first
\* occurrence of the number of every Certain cell among the coordinates: what
\* is left are the numbers of 1..9, in ascending order, that no Certain cell
\* among the coordinates holds.
prune(board, coords, possible_values) ==
    LET kept(num) ==
            \A i \in 1 .. Len(coords) :
                LET value == board[coords[i][2]][coords[i][1]].value
                IN ~(is_certain(value) /\ as_vec(value)[1] = num)
    IN SelectSeq(possible_values, kept)

\* update_possible_cell_values pruning by the quadrant and row vectors only.
update_possible_cell_values_no_column(board, x, y) ==
    IF board[y][x].is_static \/ is_certain(board[y][x].value) THEN board
    ELSE LET quadrant == quadrant_coords(x \div QUADRANT_DIM, y \div QUADRANT_DIM)
             row == row_coords(x)
             possible_values ==
                 prune(board, quadrant \o row, <<1, 2, 3, 4, 5, 6, 7, 8, 9>>)
         IN [board EXCEPT ![y][x].value = Uncertain(possible_values)]

\* update_possible_cell_values returning early on static cells only.
update_possible_cell_values_static_only(board, x, y) ==
    IF board[y][x].is_static THEN board
    ELSE LET quadrant == quadrant_coords(x \div QUADRANT_DIM, y \div QUADRANT_DIM)
             row == row_coords(x)
             column == column_coords(y)
             possible_values ==
                 prune(board, quadrant \o row \o column, <<1, 2, 3, 4, 5, 6, 7, 8, 9>>)
         IN [board EXCEPT ![y][x].value = Uncertain(possible_values)]

update_possible_cell_values(board, x, y) ==
    IF board[y][x].is_static \/ is_certain(board[y][x].value) THEN board
    ELSE LET quadrant == quadrant_coords(x \div QUADRANT_DIM, y \div QUADRANT_DIM)
             row == row_coords(x)
             column == column_coords(y)
             possible_values ==
                 prune(board, quadrant \o row \o column, <<1, 2, 3, 4, 5, 6, 7, 8, 9>>)
         IN [board EXCEPT ![y][x].value = Uncertain(possible_values)]

\* The two nested loops call update_possible_cell_values on every cell, in
\* row-major order.  A call writes its own cell only, and only with an
\* Uncertain value, and it reads of the other cells only whether they are
\* Certain and which number they hold, which no call changes: every call
\* computes on the board the loops started with what it computes on the board
\* the calls before it left.
update_possible_values(board) ==
    [y \in Dim |-> [x \in Dim |-> update_possible_cell_values(board, x, y)[y][x]]]

-----------------------------------------------------------------------------
(* Sudoku::collapse_cell *)

ERR_NO_NUMBERS == "Cannot collapse cell with no numbers"

\* (the source quotes Certain in backticks)
ERR_CERTAIN == "Trying to collapse cell with Certain value"

\* The outcomes of possible_boards.shuffle: every arrangement of n boards.
Shuffles(n) ==
    {p \in [1 .. n -> 1 .. n] : \A i, j \in 1 .. n : p[i] = p[j] => i = j}

\* clones with the assignment to sudoku_clone.board[y][x].value left out.
RECURSIVE clones_unassigned(_, _, _, _, _, _)
clones_unassigned(self, x, y, nums, rand_idx, i) ==
    IF i > Len(nums) THEN <<>>
    ELSE IF i = rand_idx THEN clones_unassigned(self, x, y, nums, rand_idx, i + 1)
    ELSE <<self>> \o clones_unassigned(self, x, y, nums, rand_idx, i + 1)

\* clones without the test i == rand_idx: the candidate given to self is
\* cloned too (the last clone is left out, so that as many are returned).
RECURSIVE clones_all(_, _, _, _, _, _)
clones_all(self, x, y, nums, rand_idx, i) ==
    IF i >= Len(nums) THEN <<>>
    ELSE <<[self EXCEPT ![y][x].value = Certain(nums[i])]>>
            \o clones_all(self, x, y, nums, rand_idx, i + 1)

\* The loop for i in 0..nums.len(), skipping rand_idx, from index i on
\* (indices are 1-based here).  self has already been mutated.
RECURSIVE clones(_, _, _, _, _, _)
clones(self, x, y, nums, rand_idx, i) ==
    IF i > Len(nums) THEN <<>>
    ELSE IF i = rand_idx THEN clones(self, x, y, nums, rand_idx, i + 1)
    ELSE <<[self EXCEPT ![y][x].value = Certain(nums[i])]>>
            \o clones(self, x, y, nums, rand_idx, i + 1)

\* collapse_cell with the test nums.is_empty() placed after the assignment of
\* the cell (which then holds no number) instead of before it.
collapse_cell_late_check(board, x, y, rand_idx, shuffle) ==
    IF is_certain(board[y][x].value)
    THEN [ok |-> FALSE, err |-> ERR_CERTAIN, possible_boards |-> <<>>, self |-> board]
    ELSE LET nums == as_vec(board[y][x].value) IN
         IF nums = <<>>
         THEN [ok |-> FALSE, err |-> ERR_NO_NUMBERS, possible_boards |-> <<>>,
               self |-> [board EXCEPT ![y][x].value = Certain(0)]]
         ELSE LET self == [board EXCEPT ![y][x].value = Certain(nums[rand_idx])]
                  possible_boards == clones(self, x, y, nums, rand_idx, 1)
              IN [ok |-> TRUE, err |-> "",
                  possible_boards |->
                      [i \in 1 .. Len(possible_boards) |-> possible_boards[shuffle[i]]],
                  self |-> self]

\* rand_idx (1-based) and shuffle are the two draws from the random source.
\* The result holds the Result (ok, err, possible_boards) and self afterwards.
collapse_cell(board, x, y, rand_idx, shuffle) ==
    IF is_certain(board[y][x].value)
    THEN [ok |-> FALSE, err |-> ERR_CERTAIN, possible_boards |-> <<>>, self |-> board]
    ELSE LET nums == as_vec(board[y][x].value) IN
         IF nums = <<>>
         THEN [ok |-> FALSE, err |-> ERR_NO_NUMBERS, possible_boards |-> <<>>,
               self |-> board]
         ELSE LET self == [board EXCEPT ![y][x].value = Certain(nums[rand_idx])]
                  possible_boards == clones(self, x, y, nums, rand_idx, 1)
              IN [ok |-> TRUE, err |-> "",
                  possible_boards |->
                      [i \in 1 .. Len(possible_boards) |-> possible_boards[shuffle[i]]],
                  self |-> self]

\* The draws collapse_cell can make on this cell.
RandIdx(board, x, y) ==
    IF is_certain(board[y][x].value) \/ as_vec(board[y][x].value) = <<>>
    THEN {1}
    ELSE 1 .. Len(as_vec(board[y][x].value))

ShuffleOf(board, x, y) ==
    IF is_certain(board[y][x].value) \/ as_vec(board[y][x].value) = <<>>
    THEN Shuffles(0)
    ELSE Shuffles(Len(as_vec(board[y][x].value)) - 1)

-----------------------------------------------------------------------------
(* Sudoku::find_less_entropy *)

\* The scan visits the cells in row-major order, cell number i = y * BOARD_DIM + x.
CellAt(board, i) == board[i \div BOARD_DIM][i % BOARD_DIM]

\* less_entropy when the scan reaches cell number i: usize::MAX, or the length
\* of the shortest Uncertain vector seen so far (it is only ever assigned a
\* smaller length).
less_entropy_at(board, i) ==
    LET seen == {j \in 0 .. (i - 1) : ~is_certain(CellAt(board, j).value)}
    IN IF seen = {} THEN USIZE_MAX
       ELSE CHOOSE n \in {Len(as_vec(CellAt(board, j).value)) : j \in seen} :
               \A j \in seen : n <= Len(as_vec(CellAt(board, j).value))

\* assigns_index with the comparison written <= instead of <.
assigns_index_le(board, i) ==
    /\ ~is_certain(CellAt(board, i).value)
    /\ Len(as_vec(CellAt(board, i).value)) <= less_entropy_at(board, i)

\* Whether the iteration at cell number i assigns index.
assigns_index(board, i) ==
    /\ ~is_certain(CellAt(board, i).value)
    /\ Len(as_vec(CellAt(board, i).value)) < less_entropy_at(board, i)

\* index after the scan: (0, 0) as initialised, or the cell of the last
\* iteration that assigned it.
find_less_entropy(board) ==
    LET assigned == {i \in 0 .. (BOARD_DIM * BOARD_DIM - 1) : assigns_index(board, i)}
    IN IF assigned = {} THEN <<0, 0>>
       ELSE LET i == CHOOSE k \in assigned : \A j \in assigned : j <= k
            IN <<i % BOARD_DIM, i \div BOARD_DIM>>

-----------------------------------------------------------------------------
(* Sudoku::reset_board *)

\* reset_board without the test of is_static.
reset_board_all(board) ==
    [y \in Dim |-> [x \in Dim |-> [board[y][x] EXCEPT !.value = Uncertain(<<>>)]]]

\* reset_board skipping the Certain cells instead of the static ones.
reset_board_skip_certain(board) ==
    [y \in Dim |-> [x \in Dim |->
        IF is_certain(board[y][x].value) THEN board[y][x]
        ELSE [board[y][x] EXCEPT !.value = Uncertain(<<>>)]]]

reset_board(board) ==
    [y \in Dim |-> [x \in Dim |->
        IF board[y][x].is_static THEN board[y][x]
        ELSE [board[y][x] EXCEPT !.value = Uncertain(<<>>)]]]

-----------------------------------------------------------------------------
(* Sudoku::complete *)

\* .map(|(x, y)| self.board[y][x].value.as_vec()[0]).sum::<u32>()
RECURSIVE sum_from(_, _, _)
sum_from(board, coords, i) ==
    IF i > Len(coords) THEN 0
    ELSE as_vec(board[coords[i][2]][coords[i][1]].value)[1]
            + sum_from(board, coords, i + 1)

expected_sum == 45

\* complete returning true once every cell is found Certain, the sums of the
\* groups left unchecked.
complete_without_sums(board) ==
    \A y \in Dim : \A x \in Dim : is_certain(board[y][x].value)

complete(board) ==
    /\ \A y \in Dim : \A x \in Dim : is_certain(board[y][x].value)
    /\ \A qy \in 0 .. (QUADRANT_DIM - 1) : \A qx \in 0 .. (QUADRANT_DIM - 1) :
          sum_from(board, quadrant_coords(qx, qy), 1) = expected_sum
    /\ \A i \in Dim :
          /\ sum_from(board, row_coords(i), 1) = expected_sum
          /\ sum_from(board, column_coords(i), 1) = expected_sum

-----------------------------------------------------------------------------
(* The puzzle files the model loads *)

\* How many of BlankOrder's cells a puzzle file leaves blank, at most.
MaxBlanks == 9

\* A valid filled Sudoku: row y is 1..9 rotated by 3 * (y % 3) + y \div 3.
Solved(x, y) == ((x + 3 * (y % 3) + (y \div 3)) % BOARD_DIM) + 1

\* The cells that are blanked, in this order.  The values of the solved grid
\* at the first nine cells are 1, 4 and 7, three times each: blanked together
\* they leave three candidates in each of them, the first six two.
BlankOrder ==
    << <<0, 0>>, <<3, 0>>, <<6, 0>>, <<0, 1>>, <<3, 1>>, <<6, 1>>,
       <<0, 2>>, <<3, 2>>, <<6, 2>>, <<2, 6>>, <<5, 6>>, <<2, 7>> >>

FirstBlanks(blanks) == {BlankOrder[k] : k \in 1 .. blanks}

\* Nine more cells, in other rows, columns and quadrants, that hold 3, 6 and 9,
\* three times each.
SecondCluster == {<<x, y>> : x \in {1, 4, 7}, y \in {3, 4, 5}}

\* A file may also overwrite one given digit (a clash), which load accepts:
\* <<x, y, digit>>.  NoClash names a cell outside the grid.
NoClash == <<9, 9, 0>>

Clashes == {NoClash, <<6, 5, 1>>, <<3, 4, 4>>, <<8, 8, 5>>, <<1, 7, 3>>}

\* What follows the 9x9 block in the file.
Extras == {"none", "dots", "digit_column", "digit_line"}

DigitChar(n) ==
    CASE n = 0 -> "0" [] n = 1 -> "1" [] n = 2 -> "2" [] n = 3 -> "3" [] n = 4 -> "4"
      [] n = 5 -> "5" [] n = 6 -> "6" [] n = 7 -> "7" [] n = 8 -> "8" [] n = 9 -> "9"

PuzzleChar(x, y, blank_cells, clash) ==
    IF <<x, y>> \in blank_cells THEN "."
    ELSE IF clash[1] = x /\ clash[2] = y THEN DigitChar(clash[3])
    ELSE DigitChar(Solved(x, y))

PuzzleFile(blank_cells, clash, extra) ==
    LET lines == [l \in 1 .. BOARD_DIM |->
                    [c \in 1 .. BOARD_DIM |-> PuzzleChar(c - 1, l - 1, blank_cells, clash)]
                    \o (CASE extra = "dots" -> <<" ", "x">>
                          [] extra = "digit_column" /\ l = 2 -> <<"7">>
                          [] OTHER -> <<>>)]
    IN lines \o (CASE extra = "dots" -> << <<".", ".", "-">> >>
                   [] extra = "digit_line" -> << <<".", "3">> >>
                   [] OTHER -> <<>>)

\* A file of 81 digits 5: every row, column and quadrant sums to 45.
AllFives == [l \in 1 .. BOARD_DIM |-> [c \in 1 .. BOARD_DIM |-> "5"]]

\* The files: the first cells blanked, with and without a clash; both clusters
\* blanked; the first cells blanked and more text than 9 lines of 9 characters;
\* the file of fives.
PuzzleFiles ==
    {PuzzleFile(FirstBlanks(blanks), clash, "none") :
        blanks \in 0 .. MaxBlanks, clash \in Clashes}
    \cup {PuzzleFile(FirstBlanks(MaxBlanks - 3) \cup SecondCluster, clash, "none") :
            clash \in {NoClash, <<1, 7, 3>>}}
    \cup {PuzzleFile(FirstBlanks(MaxBlanks), NoClash, extra) : extra \in Extras}
    \cup {AllFives}

-----------------------------------------------------------------------------
(* The event loop of main *)

\* last: cmd names the handler or method, len is how many boards the frontier
\* held when it started, x and y the coordinate it worked on, and ok, err,
\* possible_boards the Result of its collapse_cell; coords is the vector a
\* call of row_coords or column_coords returned.
NoCall == [cmd |-> "none", len |-> 0, x |-> 0, y |-> 0, ok |-> TRUE, err |-> "",
           possible_boards |-> <<>>, coords |-> <<>>]

Init ==
    /\ file \in PuzzleFiles
    /\ boards = <<>>
    /\ pc = "start"
    /\ last = NoCall

\* main.rs 99-107: initial_board = Sudoku::from_file(..); boards = vec![initial_board]
Load ==
    /\ pc = "start"
    /\ IF from_file_panics(file)
       THEN /\ pc' = "panicked"
            /\ boards' = boards
       ELSE /\ pc' = "running"
            /\ boards' = <<from_file(file)>>
    /\ last' = [NoCall EXCEPT !.cmd = "Load"]
    /\ UNCHANGED file

\* Event::KeyDown R: boards[0].reset_board(); boards.drain(1..)
KeyR ==
    /\ pc = "running"
    /\ boards' = <<reset_board(boards[1])>>
    /\ last' = [NoCall EXCEPT !.cmd = "R", !.len = Len(boards)]
    /\ UNCHANGED <<file, pc>>

\* insert_all with boards.push(board) instead of boards.insert(1, board).
insert_all_push(frontier, other_possibilities, i) == frontier \o other_possibilities

\* boards.insert(1, board) for each board of other_possibilities, in turn:
\* each lands in front of the ones inserted before it.
RECURSIVE insert_all(_, _, _)
insert_all(frontier, other_possibilities, i) ==
    IF i > Len(other_possibilities) THEN frontier
    ELSE insert_all(<<frontier[1], other_possibilities[i]>> \o Tail(frontier),
                    other_possibilities, i + 1)

\* Step with an Err arm that leaves boards as it is.
Step_keep(rand_idx, shuffle, active, xy, result) ==
    /\ boards' = IF result.ok
                 THEN insert_all(<<result.self>> \o Tail(boards),
                                 result.possible_boards, 1)
                 ELSE boards
    /\ pc' = IF Len(boards') > 0 THEN "running" ELSE "panicked"
    /\ last' = [cmd |-> "Space", len |-> Len(boards), x |-> xy[1], y |-> xy[2],
                ok |-> result.ok, err |-> result.err,
                possible_boards |-> result.possible_boards, coords |-> <<>>]

\* Step without the loop that inserts other_possibilities.
Step_drop_alternatives(rand_idx, shuffle, active, xy, result) ==
    /\ boards' = IF result.ok
                 THEN <<result.self>> \o Tail(boards)
                 ELSE Tail(boards)
    /\ pc' = IF Len(boards') > 0 THEN "running" ELSE "panicked"
    /\ last' = [cmd |-> "Space", len |-> Len(boards), x |-> xy[1], y |-> xy[2],
                ok |-> result.ok, err |-> result.err,
                possible_boards |-> result.possible_boards, coords |-> <<>>]

\* Step with boards.pop() instead of boards.remove(0) in the Err arm.
Step_pop(rand_idx, shuffle, active, xy, result) ==
    /\ boards' = IF result.ok
                 THEN insert_all(<<result.self>> \o Tail(boards),
                                 result.possible_boards, 1)
                 ELSE SubSeq(boards, 1, Len(boards) - 1)
    /\ pc' = IF Len(boards') > 0 THEN "running" ELSE "panicked"
    /\ last' = [cmd |-> "Space", len |-> Len(boards), x |-> xy[1], y |-> xy[2],
                ok |-> result.ok, err |-> result.err,
                possible_boards |-> result.possible_boards, coords |-> <<>>]

\* The body of the Space arm, after its guard.
Step(rand_idx, shuffle, active, xy, result) ==
    /\ boards' = IF result.ok
                 THEN insert_all(<<result.self>> \o Tail(boards),
                                 result.possible_boards, 1)
                 ELSE Tail(boards)
    /\ pc' = IF Len(boards') > 0 THEN "running" ELSE "panicked"
    /\ last' = [cmd |-> "Space", len |-> Len(boards), x |-> xy[1], y |-> xy[2],
                ok |-> result.ok, err |-> result.err,
                possible_boards |-> result.possible_boards, coords |-> <<>>]

\* KeySpace without the guard !boards[0].complete().
KeySpace_unguarded ==
    /\ pc = "running"
    /\ \E active \in {update_possible_values(boards[1])} :
       \E xy \in {find_less_entropy(active)} :
       \E rand_idx \in RandIdx(active, xy[1], xy[2]) :
       \E shuffle \in ShuffleOf(active, xy[1], xy[2]) :
           Step(rand_idx, shuffle, active, xy,
                collapse_cell(active, xy[1], xy[2], rand_idx, shuffle))
    /\ UNCHANGED file

\* Event::KeyDown Space if !boards[0].complete(); when the guard fails the
\* event falls to the arm _ => {}.
KeySpace ==
    /\ pc = "running"
    /\ IF ~complete(boards[1])
       THEN \E active \in {update_possible_values(boards[1])} :
            \E xy \in {find_less_entropy(active)} :
            \E rand_idx \in RandIdx(active, xy[1], xy[2]) :
            \E shuffle \in ShuffleOf(active, xy[1], xy[2]) :
                Step(rand_idx, shuffle, active, xy,
                     collapse_cell(active, xy[1], xy[2], rand_idx, shuffle))
       ELSE /\ last' = [NoCall EXCEPT !.cmd = "SpaceIgnored", !.len = Len(boards)]
            /\ UNCHANGED <<boards, pc>>
    /\ UNCHANGED file

\* Event::Quit: break 'gameloop
Quit ==
    /\ pc = "running"
    /\ pc' = "exited"
    /\ last' = [NoCall EXCEPT !.cmd = "Quit", !.len = Len(boards)]
    /\ UNCHANGED <<file, boards>>

Next == Load \/ KeyR \/ KeySpace \/ Quit

Spec == Init /\ [][Next]_vars

\* The event loop when the only key pressed is Space, pressed again and again
\* until it has no effect.
StepNext == Load \/ KeySpace

StepSpec == Init /\ [][StepNext]_vars /\ WF_vars(Load) /\ WF_vars(KeySpace)

-----------------------------------------------------------------------------
(* The methods of Sudoku called directly, in any order, on one board.       *)
(* boards holds that one board; last holds the call and what it returned:   *)
(* x, y the arguments (the returned pair for find_less_entropy), ok whether *)
(* the Result is Ok (the returned bool for complete).                       *)

\* The blanked cells that collapse_cell and update_possible_cell_values are
\* tried on.
ProbeBlanks == {BlankOrder[1], BlankOrder[2]}

\* The coordinates passed to collapse_cell and update_possible_cell_values: the
\* first blanked cells and one given cell.
ProbeCells == ProbeBlanks \cup {<<1, 0>>}

\* The files the board is loaded from: a filled grid, one whose blanks are all
\* probed and one with more blanks, each with and without a clash.
ApiFiles ==
    {PuzzleFile(blank_cells, clash, "none") :
        blank_cells \in {{}, ProbeBlanks, FirstBlanks(MaxBlanks)},
        clash \in {NoClash, <<3, 4, 4>>}}

ApiInit ==
    /\ file \in ApiFiles
    /\ boards = <<from_file(file)>>
    /\ pc = "running"
    /\ last = NoCall

CallUpdatePossibleValues ==
    /\ boards' = <<update_possible_values(boards[1])>>
    /\ last' = [NoCall EXCEPT !.cmd = "update_possible_values"]
    /\ UNCHANGED <<file, pc>>

CallUpdatePossibleCellValues ==
    \E xy \in ProbeCells :
        /\ boards' = <<update_possible_cell_values(boards[1], xy[1], xy[2])>>
        /\ last' = [NoCall EXCEPT !.cmd = "update_possible_cell_values",
                                  !.x = xy[1], !.y = xy[2]]
        /\ UNCHANGED <<file, pc>>

CallCollapseCell ==
    \E xy \in ProbeCells :
    \E rand_idx \in RandIdx(boards[1], xy[1], xy[2]) :
    \E shuffle \in ShuffleOf(boards[1], xy[1], xy[2]) :
    \E result \in {collapse_cell(boards[1], xy[1], xy[2], rand_idx, shuffle)} :
        /\ boards' = <<result.self>>
        /\ last' = [cmd |-> "collapse_cell", len |-> 1, x |-> xy[1], y |-> xy[2],
                    ok |-> result.ok, err |-> result.err,
                    possible_boards |-> result.possible_boards, coords |-> <<>>]
        /\ UNCHANGED <<file, pc>>

CallFindLessEntropy ==
    \E xy \in {find_less_entropy(boards[1])} :
        /\ last' = [NoCall EXCEPT !.cmd = "find_less_entropy", !.x = xy[1], !.y = xy[2]]
        /\ UNCHANGED <<file, boards, pc>>

CallResetBoard ==
    /\ boards' = <<reset_board(boards[1])>>
    /\ last' = [NoCall EXCEPT !.cmd = "reset_board"]
    /\ UNCHANGED <<file, pc>>

CallComplete ==
    /\ last' = [NoCall EXCEPT !.cmd = "complete", !.ok = complete(boards[1])]
    /\ UNCHANGED <<file, boards, pc>>

CallRowCoords ==
    \E row_index \in Dim :
        /\ last' = [NoCall EXCEPT !.cmd = "row_coords", !.x = row_index,
                                  !.coords = row_coords(row_index)]
        /\ UNCHANGED <<file, boards, pc>>

CallColumnCoords ==
    \E column_index \in Dim :
        /\ last' = [NoCall EXCEPT !.cmd = "column_coords", !.x = column_index,
                                  !.coords = column_coords(column_index)]
        /\ UNCHANGED <<file, boards, pc>>

ApiNext ==
    \/ CallUpdatePossibleValues
    \/ CallUpdatePossibleCellValues
    \/ CallCollapseCell
    \/ CallFindLessEntropy
    \/ CallResetBoard
    \/ CallComplete
    \/ CallRowCoords
    \/ CallColumnCoords

ApiSpec == ApiInit /\ [][ApiNext]_vars

-----------------------------------------------------------------------------
(* Vocabulary of the properties, stated on the grid itself *)

Coords == {<<x, y>> : x \in Dim, y \in Dim}

CellOf(board, c) == board[c[2]][c[1]]

Fixed(board, c) == CellOf(board, c).value.certain

FixedValue(board, c) == CellOf(board, c).value.nums[1]

Candidates(board, c) == CellOf(board, c).value.nums

Range(seq) == {seq[i] : i \in 1 .. Len(seq)}

NoRepeat(seq) == \A i, j \in 1 .. Len(seq) : seq[i] = seq[j] => i = j

\* Coordinates are (column, row).
SameColumn(c, d) == c[1] = d[1]

SameRow(c, d) == c[2] = d[2]

SameQuadrant(c, d) == (c[1] \div 3 = d[1] \div 3) /\ (c[2] \div 3 = d[2] \div 3)

Peer(c, d) == c # d /\ (SameRow(c, d) \/ SameColumn(c, d) \/ SameQuadrant(c, d))

\* The 20 cells that share a group with each cell.
PeerSets == [c \in Coords |-> {d \in Coords : Peer(c, d)}]

\* The values of 1..9 that no Fixed cell sharing a group with c holds.
Allowed(board, c) ==
    {n \in 1 .. 9 :
        \A d \in PeerSets[c] : Fixed(board, d) => FixedValue(board, d) # n}

\* Two boards are the same everywhere but (possibly) at c.
SameExceptAt(b1, b2, c) == \A d \in Coords : d # c => CellOf(b1, d) = CellOf(b2, d)

-----------------------------------------------------------------------------
(* C1 *)

\* C1: after any sequence of Step and Reset commands on a loaded puzzle the
\* frontier is never empty, that is the assertion boards.len() > 0 that closes
\* the Space handler never fails.
C1_AssertionNeverFails == ~(pc = "panicked" /\ last.cmd = "Space")

-----------------------------------------------------------------------------
(* C2 *)

\* The call that led to this state was collapse_cell(x, y) at coordinate c.
CollapsedAt(c) == last'.cmd = "collapse_cell" /\ c = <<last'.x, last'.y>>

\* C2: collapse_cell(x, y) on an Uncertain cell holding k >= 1 distinct
\* candidates fixes that cell on self to one of the candidates and returns
\* exactly k - 1 boards; every returned board equals the mutated self in all
\* cells but (x, y), where it is Certain of another candidate; and the value
\* fixed on self together with the values fixed on the returned boards are the
\* k candidates, each used once.
C2_Collapse ==
    \A c \in Coords :
        ( /\ CollapsedAt(c)
          /\ ~Fixed(boards[1], c)
          /\ Len(Candidates(boards[1], c)) >= 1
          /\ NoRepeat(Candidates(boards[1], c)) )
        =>
        LET nums == Candidates(boards[1], c)
            self == boards'[1]
            alts == last'.possible_boards
            values == [i \in 1 .. Len(alts) |-> FixedValue(alts[i], c)]
        IN /\ last'.ok
           /\ Fixed(self, c)
           /\ FixedValue(self, c) \in Range(nums)
           /\ CellOf(self, c).is_static = CellOf(boards[1], c).is_static
           /\ SameExceptAt(self, boards[1], c)
           /\ Len(alts) = Len(nums) - 1
           /\ \A i \in 1 .. Len(alts) :
                 /\ SameExceptAt(alts[i], self, c)
                 /\ Fixed(alts[i], c)
                 /\ CellOf(alts[i], c).is_static = CellOf(self, c).is_static
                 /\ FixedValue(alts[i], c) # FixedValue(self, c)
           /\ NoRepeat(values)
           /\ Range(values) \cup {FixedValue(self, c)} = Range(nums)

C2_CollapseProperty == [][C2_Collapse]_vars

\* A collapse of a cell with three candidates has returned two boards.
C2_Witness ==
    /\ last.cmd = "collapse_cell"
    /\ last.ok
    /\ Len(last.possible_boards) = 2
    /\ Fixed(boards[1], <<last.x, last.y>>)

-----------------------------------------------------------------------------
(* C9 *)

\* C9: collapse_cell(x, y) on an Uncertain cell whose candidate vector is empty
\* returns an error and no boards, and leaves the board as it was.
C9_CollapseEmpty ==
    \A c \in Coords :
        ( /\ CollapsedAt(c)
          /\ ~Fixed(boards[1], c)
          /\ Candidates(boards[1], c) = <<>> )
        =>
        /\ ~last'.ok
        /\ last'.err = ERR_NO_NUMBERS
        /\ last'.possible_boards = <<>>
        /\ boards' = boards

C9_CollapseEmptyProperty == [][C9_CollapseEmpty]_vars

\* A collapse has failed on a cell without candidates.
C9_Witness ==
    /\ last.cmd = "collapse_cell"
    /\ ~last.ok
    /\ ~Fixed(boards[1], <<last.x, last.y>>)
    /\ Candidates(boards[1], <<last.x, last.y>>) = <<>>

-----------------------------------------------------------------------------
(* C6 *)

\* C6: after update_possible_values on any board, every cell that was not
\* Certain holds as candidates exactly the values of 1..9 that are not the value
\* of a Certain cell of its row, its column or its quadrant, and every Certain
\* cell is unchanged; so no Certain cell's value is among the candidates of a
\* cell sharing a group with it.
C6_Update ==
    last'.cmd = "update_possible_values" =>
        /\ \A c \in Coords :
              IF Fixed(boards[1], c)
              THEN CellOf(boards'[1], c) = CellOf(boards[1], c)
              ELSE /\ ~Fixed(boards'[1], c)
                   /\ CellOf(boards'[1], c).is_static = CellOf(boards[1], c).is_static
                   /\ NoRepeat(Candidates(boards'[1], c))
                   /\ Range(Candidates(boards'[1], c)) = Allowed(boards[1], c)
        /\ \A c, d \in Coords :
              (Peer(c, d) /\ Fixed(boards'[1], d) /\ ~Fixed(boards'[1], c))
              => FixedValue(boards'[1], d) \notin Range(Candidates(boards'[1], c))

C6_UpdateProperty == [][C6_Update]_vars

\* The candidates were recomputed on a board with a cell fixed by a collapse,
\* next to a cell left with some, but not all, of 1..9.
C6_Witness ==
    /\ last.cmd = "update_possible_values"
    /\ \E c, d \in Coords :
          /\ Peer(c, d)
          /\ Fixed(boards[1], d) /\ ~CellOf(boards[1], d).is_static
          /\ ~Fixed(boards[1], c)
          /\ Len(Candidates(boards[1], c)) \in 1 .. 8

-----------------------------------------------------------------------------
(* C7 *)

RowMajor(c) == c[2] * 9 + c[1]

\* C7: find_less_entropy returns the coordinate of an Uncertain cell whose
\* candidate count is minimal over the Uncertain cells and, among those with
\* that count, the first in row-major order; with no Uncertain cell it returns
\* (0, 0).  So if an Uncertain cell has no candidate, the returned cell has none.
C7_FindLessEntropy ==
    last.cmd = "find_less_entropy" =>
        LET board == boards[1]
            r == <<last.x, last.y>>
            uncertain == {c \in Coords : ~Fixed(board, c)}
        IN IF uncertain = {} THEN r = <<0, 0>>
           ELSE /\ r \in uncertain
                /\ \A c \in uncertain :
                      /\ Len(Candidates(board, r)) <= Len(Candidates(board, c))
                      /\ Len(Candidates(board, c)) = Len(Candidates(board, r))
                            => RowMajor(r) <= RowMajor(c)
                /\ (\E c \in uncertain : Candidates(board, c) = <<>>)
                      => Candidates(board, r) = <<>>

\* The scan returned a cell other than the first Uncertain one, tied with a
\* later cell.
C7_Witness ==
    /\ last.cmd = "find_less_entropy"
    /\ ~Fixed(boards[1], <<last.x, last.y>>)
    /\ \E c, d \in Coords :
          /\ ~Fixed(boards[1], c) /\ ~Fixed(boards[1], d)
          /\ RowMajor(c) < RowMajor(<<last.x, last.y>>)
          /\ RowMajor(d) > RowMajor(<<last.x, last.y>>)
          /\ Len(Candidates(boards[1], d)) = Len(Candidates(boards[1], <<last.x, last.y>>))

-----------------------------------------------------------------------------
(* C8 *)

RECURSIVE SumOver(_, _)
SumOver(board, cells) ==
    IF cells = {} THEN 0
    ELSE LET c == CHOOSE d \in cells : TRUE
         IN FixedValue(board, c) + SumOver(board, cells \ {c})

\* The 27 groups: 9 rows, 9 columns, 9 quadrants.
Groups ==
    {{c \in Coords : c[2] = i} : i \in Dim}
    \cup {{c \in Coords : c[1] = i} : i \in Dim}
    \cup {{c \in Coords : c[1] \div 3 = q[1] /\ c[2] \div 3 = q[2]} :
            q \in (0 .. 2) \X (0 .. 2)}

AllFixed(board) == \A c \in Coords : Fixed(board, c)

SumsTo45(board) == \A g \in Groups : SumOver(board, g) = 45

ValidSolution(board) ==
    /\ AllFixed(board)
    /\ \A g \in Groups : {FixedValue(board, c) : c \in g} = 1 .. 9

\* C8: complete returns false for every board with a cell that is not Certain,
\* true for every valid filled Sudoku, and in general true exactly when all 81
\* cells are Certain and the values of each row, column and quadrant sum to 45.
C8_Complete ==
    last.cmd = "complete" =>
        /\ ~AllFixed(boards[1]) => ~last.ok
        /\ ValidSolution(boards[1]) => last.ok
        /\ last.ok <=> (AllFixed(boards[1]) /\ SumsTo45(boards[1]))

\* complete returned true on a grid that collapses filled in.
C8_Witness ==
    /\ last.cmd = "complete"
    /\ last.ok
    /\ ValidSolution(boards[1])
    /\ \E c \in Coords : ~CellOf(boards[1], c).is_static

-----------------------------------------------------------------------------
(* C3 *)

\* C3: after a Step whose collapse succeeds on a frontier [A, B1, ..., Bn] the
\* frontier is [A', S1, ..., Sk-1, B1, ..., Bn]: A' is the active board with the
\* chosen cell fixed, the S are the boards collapse returned (A' with the chosen
\* cell fixed to each of the other candidates), in some order, right after the
\* active board and before every older board, and the older boards are
\* unchanged and in the same order.
C3_StepSuccess ==
    (last'.cmd = "Space" /\ last'.ok) =>
        LET c == <<last'.x, last'.y>>
            A == boards[1]
            A2 == boards'[1]
            n == Len(boards) - 1
            allowed == Allowed(A, c)
            m == Cardinality(allowed) - 1
        IN /\ Len(boards') = 1 + m + n
           /\ ~Fixed(A, c) /\ Fixed(A2, c)
           /\ FixedValue(A2, c) \in allowed
           /\ \A d \in Coords \ {c} :
                 /\ Fixed(A, d) => CellOf(A2, d) = CellOf(A, d)
                 /\ ~Fixed(A, d) => ~Fixed(A2, d)
           /\ \A j \in 1 .. m :
                 /\ SameExceptAt(boards'[1 + j], A2, c)
                 /\ Fixed(boards'[1 + j], c)
                 /\ \E i \in 1 .. Len(last'.possible_boards) :
                       last'.possible_boards[i] = boards'[1 + j]
           /\ Len(last'.possible_boards) = m
           /\ {FixedValue(boards'[1 + j], c) : j \in 1 .. m}
                 = allowed \ {FixedValue(A2, c)}
           /\ \A i \in 1 .. n : boards'[1 + m + i] = boards[1 + i]

C3_StepSuccessProperty == [][C3_StepSuccess]_vars

\* A Step has put the two boards collapse returned in front of older boards.
C3_Witness ==
    /\ last.cmd = "Space"
    /\ last.ok
    /\ last.len >= 2
    /\ Len(last.possible_boards) >= 2
    /\ Len(boards) = last.len + Len(last.possible_boards)

-----------------------------------------------------------------------------
(* C4 *)

\* A cell that is not Certain and that recomputing leaves without candidate.
HasEmptyCell(board) ==
    \E c \in Coords : ~Fixed(board, c) /\ Allowed(board, c) = {}

\* C4: when a Step is taken on a frontier [A, B1, ..., Bn] and, after
\* recomputing the candidates of A, the selected cell has no candidate, the
\* frontier becomes [B1, ..., Bn]: only the active board is removed, the others
\* are unchanged and in the same order, and B1 is the active board.
C4_StepEmpty ==
    (pc = "running" /\ last'.cmd = "Space" /\ HasEmptyCell(boards[1])) =>
        /\ ~last'.ok
        /\ last'.err = ERR_NO_NUMBERS
        /\ Len(boards') = Len(boards) - 1
        /\ \A i \in 1 .. Len(boards') : boards'[i] = boards[i + 1]

C4_StepEmptyProperty == [][C4_StepEmpty]_vars

\* A Step has dropped the active board for an empty cell and an older board
\* has become the active one.
C4_Witness ==
    /\ last.cmd = "Space"
    /\ ~last.ok
    /\ last.err = ERR_NO_NUMBERS
    /\ last.len >= 3
    /\ Len(boards) = last.len - 1
    /\ pc = "running"

-----------------------------------------------------------------------------
(* C5 *)

\* The cell the file gives at c: Certain and static for a digit, else
\* Uncertain without candidates and not static.
LoadedCell(c) ==
    LET char == file[c[2] + 1][c[1] + 1]
    IN IF \E n \in 0 .. 9 : DigitChar(n) = char
       THEN [value |-> [certain |-> TRUE,
                        nums |-> <<CHOOSE n \in 0 .. 9 : DigitChar(n) = char>>],
             is_static |-> TRUE]
       ELSE [value |-> [certain |-> FALSE, nums |-> <<>>], is_static |-> FALSE]

\* C5: a Reset leaves the frontier with exactly one board, the loaded one:
\* every static cell has its loaded value and every other cell is Uncertain
\* without candidates; so recomputing the candidates after a Reset gives what
\* it gives on a fresh load.
C5_Reset ==
    last.cmd = "R" =>
        /\ Len(boards) = 1
        /\ \A c \in Coords : CellOf(boards[1], c) = LoadedCell(c)
        /\ update_possible_values(boards[1]) = update_possible_values(from_file(file))

\* A Reset has been taken on a frontier of several boards.
C5_Witness ==
    /\ last.cmd = "R"
    /\ last.len >= 2
    /\ Len(boards) = 1

-----------------------------------------------------------------------------
(* C10 *)

\* C10: when the active board is complete a Step command changes nothing: the
\* frontier is the same before and after it.
C10_StepOnComplete ==
    ( /\ pc = "running"
      /\ AllFixed(boards[1]) /\ SumsTo45(boards[1])
      /\ last'.cmd \in {"Space", "SpaceIgnored"} )
    => (boards' = boards /\ pc' = pc)

C10_StepOnCompleteProperty == [][C10_StepOnComplete]_vars

\* A Space key has been ignored on a complete board, with other boards behind it.
C10_Witness ==
    /\ last.cmd = "SpaceIgnored"
    /\ AllFixed(boards[1]) /\ SumsTo45(boards[1])
    /\ Len(boards) >= 2

-----------------------------------------------------------------------------
(* C11 *)

\* The characters that load reads as a given number.
DigitChars == {DigitChar(n) : n \in 0 .. 9}

\* C11: in every board of the frontier the static cells are exactly the cells
\* the loaded file gives, and each of them is Certain of the loaded number: no
\* recompute, collapse, clone or reset changes a static cell's flag or value.
C11_StaticCells ==
    \A i \in 1 .. Len(boards) : \A c \in Coords :
        LET char == file[c[2] + 1][c[1] + 1]
            cell == CellOf(boards[i], c)
        IN /\ cell.is_static = (char \in DigitChars)
           /\ cell.is_static =>
                 /\ cell.value.certain
                 /\ Len(cell.value.nums) = 1
                 /\ DigitChar(cell.value.nums[1]) = char

\* Steps have built a frontier of several boards that hold given cells and
\* collapsed cells.
C11_Witness ==
    /\ last.cmd = "Space"
    /\ Len(boards) >= 3
    /\ \A i \in 1 .. Len(boards) :
          /\ \E c \in Coords : CellOf(boards[i], c).is_static
          /\ \E c \in Coords : Fixed(boards[i], c) /\ ~CellOf(boards[i], c).is_static

-----------------------------------------------------------------------------
(* C12 *)

FixedCells(board) == {c \in Coords : Fixed(board, c)}

\* Every cell Certain in b1 is the same cell in b2.
KeepsFixed(b1, b2) == \A c \in FixedCells(b1) : CellOf(b2, c) = CellOf(b1, c)

\* A direct call of one of the three methods keeps the Certain cells, on self
\* and on the boards collapse_cell returns.
C12_Methods ==
    last'.cmd \in {"update_possible_values", "update_possible_cell_values", "collapse_cell"}
    => /\ KeepsFixed(boards[1], boards'[1])
       /\ \A i \in 1 .. Len(last'.possible_boards) :
             KeepsFixed(boards[1], last'.possible_boards[i])

\* The same through a Step, which recomputes the active board A and collapses
\* the selected cell c of the result; a successful Step adds c, and nothing
\* else, to the Certain cells of the active board.
C12_Step ==
    (pc = "running" /\ last'.cmd = "Space") =>
        LET A == boards[1]
            c == <<last'.x, last'.y>>
            active == update_possible_values(A)
            collapsed == {d \in FixedCells(A) : ~CellOf(A, d).is_static}
        IN /\ KeepsFixed(A, active)
           /\ FixedCells(active) = FixedCells(A)
           /\ \A d \in collapsed \cup {c} :
                 /\ KeepsFixed(A, update_possible_cell_values(A, d[1], d[2]))
                 /\ FixedCells(update_possible_cell_values(A, d[1], d[2])) = FixedCells(A)
           /\ last'.ok =>
                 /\ KeepsFixed(active, boards'[1])
                 /\ c \notin FixedCells(A)
                 /\ FixedCells(boards'[1]) = FixedCells(A) \cup {c}
                 /\ \A i \in 1 .. Len(last'.possible_boards) :
                       /\ KeepsFixed(active, last'.possible_boards[i])
                       /\ FixedCells(last'.possible_boards[i]) = FixedCells(A) \cup {c}

\* Only reset_board turns Certain cells back into Uncertain ones: the cells
\* that are not static.
C12_Reset ==
    last'.cmd \in {"R", "reset_board"} =>
        FixedCells(boards'[1]) = {c \in Coords : CellOf(boards[1], c).is_static}

\* C12: within one board a Certain cell stays Certain of the same number under
\* update_possible_cell_values, update_possible_values and collapse_cell; only
\* reset_board makes a Certain cell that is not static Uncertain again.  So a
\* successful Step leaves every Certain cell of the active board as it was and
\* makes exactly one more cell Certain.
C12_FixedStays == [][C12_Methods /\ C12_Step /\ C12_Reset]_vars

\* A successful Step on an active board that already held collapsed cells.
C12_Witness ==
    /\ last.cmd = "Space"
    /\ last.ok
    /\ Cardinality({c \in Coords : Fixed(boards[1], c) /\ ~CellOf(boards[1], c).is_static}) >= 3

-----------------------------------------------------------------------------
(* C13 *)

\* C13: in every Step the cell passed to collapse_cell is Uncertain: the
\* error of collapsing a Certain cell never occurs, so no board is dropped from
\* the frontier because of it.
C13_NeverAlreadyFixed == ~(last.cmd = "Space" /\ ~last.ok /\ last.err = ERR_CERTAIN)

-----------------------------------------------------------------------------
(* C14 *)

\* The ways to fill the cells of columns 0, 3, 6 and rows 0, 1, 2 with 1, 4
\* and 7, each once in every row and column.
LatinSquares ==
    {p \in [0 .. 2 -> [0 .. 2 -> {1, 4, 7}]] :
        \A i, j, k \in 0 .. 2 :
            j # k => (p[i][j] # p[i][k] /\ p[j][i] # p[k][i])}

\* Valid filled grids, S[y][x]: the solved grid with those nine cells refilled.
Solutions ==
    {[y \in Dim |-> [x \in Dim |->
        IF x % 3 = 0 /\ y < 3 THEN p[y][x \div 3] ELSE Solved(x, y)]] :
     p \in LatinSquares}

IsValidGrid(S) == \A g \in Groups : {S[c[2]][c[1]] : c \in g} = 1 .. 9

\* The character that gives each number of 1..9 in a file.
CharOf == [n \in 1 .. 9 |-> DigitChar(n)]

\* The static cells of the loaded file hold the numbers of S.
Extends(S) ==
    \A c \in Coords :
        \/ file[c[2] + 1][c[1] + 1] = "."
        \/ file[c[2] + 1][c[1] + 1] = CharOf[S[c[2]][c[1]]]

\* Every Certain cell of the board holds the number of S.
Agrees(board, S) ==
    \A c \in Coords : Fixed(board, c) => FixedValue(board, c) = S[c[2]][c[1]]

\* The file has been loaded into a board.
Loaded == pc # "start" /\ ~(pc = "panicked" /\ last.cmd = "Load")

\* C14: if the static cells of the loaded puzzle extend to a valid solution S,
\* then after any Steps and Resets the frontier holds a board whose Certain
\* cells all agree with S; so the frontier of such a puzzle is never exhausted.
C14_SolutionKept ==
    \A S \in Solutions :
        (Loaded /\ Extends(S)) =>
            /\ IsValidGrid(S)
            /\ boards # <<>>
            /\ pc # "panicked"
            /\ \E i \in 1 .. Len(boards) : Agrees(boards[i], S)

\* The active board has left a solution of the puzzle, which a board behind it
\* still agrees with.
C14_Witness ==
    /\ last.cmd = "Space"
    /\ Len(boards) >= 2
    /\ \E S \in Solutions :
          /\ Extends(S)
          /\ ~Agrees(boards[1], S)
          /\ \E i \in 2 .. Len(boards) : Agrees(boards[i], S)

-----------------------------------------------------------------------------
(* C15 *)

\* The first 9 characters of the first 9 lines of the file.
First9x9(board_text) ==
    LET lines == SubSeq(board_text, 1, BOARD_DIM)
    IN [l \in 1 .. Len(lines) |-> SubSeq(lines[l], 1, BOARD_DIM)]

\* C15: load ignores what the file holds beyond 9 lines of 9 characters,
\* digits or not: it succeeds and returns the board that the first 9
\* characters of the first 9 lines give.
C15_LoadIgnoresExcess ==
    last.cmd = "Load" =>
        /\ pc = "running"
        /\ boards = <<from_file(First9x9(file))>>

-----------------------------------------------------------------------------
(* C16 *)

\* C16: with coordinates written (column, row), row_coords(i) returns the 9
\* coordinates whose row is i and column_coords(i) the 9 coordinates whose
\* column is i, for every i of 0..8.
C16_RowColumnCoords ==
    /\ last.cmd = "row_coords" =>
          /\ Len(last.coords) = 9
          /\ Range(last.coords) = {c \in Coords : c[2] = last.x}
    /\ last.cmd = "column_coords" =>
          /\ Len(last.coords) = 9
          /\ Range(last.coords) = {c \in Coords : c[1] = last.x}

-----------------------------------------------------------------------------
(* C17 *)

\* C17: whenever complete() returns true for the active board, in a state
\* reached from any loaded puzzle by Steps and Resets, no row, column or
\* quadrant of that board holds a number twice: each is a permutation of 1..9.
C17_CompleteMeansValid ==
    (pc = "running" /\ complete(boards[1])) => ValidSolution(boards[1])

-----------------------------------------------------------------------------
(* C18 *)

\* C18: in every board of the frontier each Certain cell that is not static
\* holds a number of 1..9 that no other Certain cell, static or not, of its
\* row, its column or its quadrant holds; the boards behind the active one,
\* cloned earlier, included.
C18_CollapsedCellsDiffer ==
    \A i \in 1 .. Len(boards) : \A c \in FixedCells(boards[i]) :
        ~CellOf(boards[i], c).is_static =>
            /\ FixedValue(boards[i], c) \in 1 .. 9
            /\ \A d \in PeerSets[c] :
                  Fixed(boards[i], d) => FixedValue(boards[i], d) # FixedValue(boards[i], c)

\* A board cloned by an earlier Step has become the active board, after the
\* board in front of it was dropped, and holds collapsed cells that share a
\* group.
C18_Witness ==
    /\ last.cmd = "Space"
    /\ ~last.ok
    /\ pc = "running"
    /\ \E c, d \in FixedCells(boards[1]) :
          /\ Peer(c, d)
          /\ ~CellOf(boards[1], c).is_static
          /\ ~CellOf(boards[1], d).is_static

-----------------------------------------------------------------------------
(* C19 *)

Completed == pc = "running" /\ complete(boards[1])

\* The search has stopped: the active board is complete, or the frontier is
\* exhausted (and the assertion has ended the process).
Stopped == Completed \/ (pc = "panicked" /\ last.cmd = "Space" /\ boards = <<>>)

Solvable == \E S \in Solutions : Extends(S)

\* C19: from any loaded puzzle, when only Steps are issued the search stops
\* after finitely many of them, with the active board complete (no Step has an
\* effect from then on) or with the frontier exhausted; when the static cells
\* of the puzzle extend to a valid solution it stops with the active board
\* complete.
C19_Terminates ==
    /\ (pc = "running") ~> (Stopped /\ (Solvable => Completed))
    /\ [][Stopped => (Stopped' /\ boards' = boards)]_vars

\* Steps alone have completed a board, collapsing cells, with boards left
\* behind it.
C19_Witness ==
    /\ Completed
    /\ last.cmd = "Space"
    /\ Len(boards) >= 2
    /\ Cardinality({c \in Coords : ~CellOf(boards[1], c).is_static}) >= 6

-----------------------------------------------------------------------------
(* C20 *)

\* Some cell is Certain in both boards, of different numbers.
Disagree(b1, b2) ==
    \E c \in Coords :
        /\ Fixed(b1, c)
        /\ Fixed(b2, c)
        /\ FixedValue(b1, c) # FixedValue(b2, c)

\* C20: any two boards at different positions of the frontier disagree on a
\* cell that is Certain in both, the cell where their branches parted: no two
\* entries of the frontier hold the same or overlapping assignments.
C20_BranchesDisjoint ==
    \A i, j \in 1 .. Len(boards) : i < j => Disagree(boards[i], boards[j])

\* The frontier holds boards cloned by two different collapses: two of them
\* differ at one cell only, two at another cell.
C20_Witness ==
    /\ Len(boards) >= 4
    /\ \E i, j, k, l \in 1 .. Len(boards) : \E c, d \in Coords :
          /\ c # d
          /\ Fixed(boards[i], c) /\ Fixed(boards[j], c)
          /\ FixedValue(boards[i], c) # FixedValue(boards[j], c)
          /\ SameExceptAt(boards[i], boards[j], c)
          /\ Fixed(boards[k], d) /\ Fixed(boards[l], d)
          /\ FixedValue(boards[k], d) # FixedValue(boards[l], d)
          /\ SameExceptAt(boards[k], boards[l], d)

====
